---- MODULE Spec2Model ----
(***************************************************************************)
(* GPS track -> OBJ mesh conversion (python/gps-to-obj).                   *)
(*                                                                         *)
(* Geometry is modelled on integers.  Track points lie on the equator at   *)
(* whole longitudes, so the geodesic between two points runs due east or   *)
(* due west, its length is the longitude difference (one unit per degree), *)
(* and every angle the program computes is a multiple of 90 degrees, for   *)
(* which sin and cos are exact.  Angles are kept in degrees where the      *)
(* program keeps radians.                                                  *)
(***************************************************************************)
EXTENDS Integers, Sequences, FiniteSets, TLC

\* ---- bounds of the model ------------------------------------------------
MaxTrackPts == 4
MaxSegs == 2
MaxFiles == 2
MaxSections == 6
MaxPriorSections == 7
MaxFilterLen == 4
MaxFilterLon == 2
MaxInterval == 2

\* ---- small helpers --------------------------------------------------------
Abs(x) == IF x < 0 THEN -x ELSE x

RECURSIVE SumSeq(_)
SumSeq(s) == IF s = <<>> THEN 0 ELSE Head(s) + SumSeq(Tail(s))

RECURSIVE Flatten(_)
Flatten(ss) == IF ss = <<>> THEN <<>> ELSE Head(ss) \o Flatten(Tail(ss))

\* ---- gps_track.py -------------------------------------------------------
GPSPoint(lon, elev) == [latitude |-> 0, longitude |-> lon, elevation |-> elev]

\* geod.inv on the equator: forward azimuth 90 (east), -90 (west), 0 for
\* coincident points; distance is the longitude difference.
GeodInv(lon1, lat1, lon2, lat2) ==
    <<IF lon2 > lon1 THEN 90 ELSE IF lon2 < lon1 THEN -90 ELSE 0,
      Abs(lon2 - lon1)>>

AngleAndDistanceTo(self, other) ==
    LET inv == GeodInv(self.longitude, self.latitude,
                       other.longitude, other.latitude)
    IN  <<-90 - inv[1], inv[2]>>

RECURSIVE FilterLoop(_, _, _, _)
FilterLoop(self_points, i, points, smoothing_interval) ==
    IF i > Len(self_points) THEN points
    ELSE LET distance == AngleAndDistanceTo(points[Len(points)], self_points[i])[2]
         IN  IF distance > smoothing_interval
             THEN FilterLoop(self_points, i + 1, Append(points, self_points[i]),
                             smoothing_interval)
             ELSE FilterLoop(self_points, i + 1, points, smoothing_interval)

RECURSIVE FilterLoopPrevSource(_, _, _, _)
FilterLoopPrevSource(self_points, i, points, smoothing_interval) ==
    IF i > Len(self_points) THEN points
    ELSE LET distance == AngleAndDistanceTo(self_points[i - 1], self_points[i])[2]
         IN  IF distance > smoothing_interval
             THEN FilterLoopPrevSource(self_points, i + 1,
                                       Append(points, self_points[i]),
                                       smoothing_interval)
             ELSE FilterLoopPrevSource(self_points, i + 1, points,
                                       smoothing_interval)

RECURSIVE FilterLoopGeq(_, _, _, _)
FilterLoopGeq(self_points, i, points, smoothing_interval) ==
    IF i > Len(self_points) THEN points
    ELSE LET distance == AngleAndDistanceTo(points[Len(points)], self_points[i])[2]
         IN  IF distance >= smoothing_interval
             THEN FilterLoopGeq(self_points, i + 1, Append(points, self_points[i]),
                                smoothing_interval)
             ELSE FilterLoopGeq(self_points, i + 1, points, smoothing_interval)

\* variants of filter_by_smoothing_interval with a plausible slip
FilterPrevSource(self_points, smoothing_interval) ==
    FilterLoopPrevSource(self_points, 2, <<self_points[1]>>, smoothing_interval)

FilterGeq(self_points, smoothing_interval) ==
    FilterLoopGeq(self_points, 2, <<self_points[1]>>, smoothing_interval)

\* GPSTrackSegment.filter_by_smoothing_interval (self.points must be non-empty)
FilterBySmoothingInterval(self_points, smoothing_interval) ==
    FilterLoop(self_points, 2, <<self_points[1]>>, smoothing_interval)

MinOf(S) == CHOOSE m \in S : \A x \in S : m <= x

\* GPSTrackSegment.min_elevation (raises on an empty segment)
SegmentMinElevation(points) ==
    MinOf({points[i].elevation : i \in 1..Len(points)})

\* variant of GPSTrack.min_elevation that looks at the first segment only
TrackMinElevationFirstSegment(segments) == SegmentMinElevation(segments[1])

\* GPSTrack.min_elevation (raises when any segment is empty)
TrackMinElevation(segments) ==
    MinOf({SegmentMinElevation(segments[k]) : k \in 1..Len(segments)})

\* GPSTrack.__len__
TrackLen(segments) == SumSeq([k \in 1..Len(segments) |-> Len(segments[k])])

\* ---- gps_to_obj.py ------------------------------------------------------
Sin(deg) == CASE deg = 0 -> 0 [] deg = -90 -> -1 [] deg = -180 -> 0

Cos(deg) == CASE deg = 0 -> 1 [] deg = -90 -> 0 [] deg = -180 -> -1

move_point(point, angle, distance) ==
    <<point[1] + Sin(angle) * distance, point[2] + Cos(angle) * distance>>

GetVerticesForPoint(cfg, location, angle, elevation) ==
    LET x == location[1]
        y == location[2]
        half_width == cfg.path_width \div 2
        dx == Cos(angle) * half_width
        dy == Sin(angle) * half_width * (-1)
    IN  << <<x + dx, y + dy, 0>>,
           <<x + dx, y + dy, elevation>>,
           <<x - dx, y - dy, elevation>>,
           <<x - dx, y - dy, 0>> >>

\* the body of the loop of _get_vertices_for_segment for one pair
VerticesForPair(cfg, from_point, to_point, global_origin, min_elevation) ==
    LET angle == AngleAndDistanceTo(from_point, to_point)[1]
        elevation == cfg.base_height
                     + (from_point.elevation - min_elevation)
                       * cfg.elevation_multiplier
        to_origin == AngleAndDistanceTo(global_origin, from_point)
        location == move_point(<<0, 0>>, to_origin[1], to_origin[2])
    IN  GetVerticesForPoint(cfg, location, angle, elevation)

\* variant of _get_vertices_for_segment that also gives the last point a
\* cross-section (pointing back at its predecessor)
GetVerticesForSegmentEveryPoint(cfg, points, global_origin, min_elevation) ==
    Flatten([i \in 1..Len(points) |->
                VerticesForPair(cfg, points[i],
                                IF i < Len(points) THEN points[i + 1]
                                ELSE points[IF i > 1 THEN i - 1 ELSE i],
                                global_origin, min_elevation)])

\* _get_vertices_for_segment: one cross-section per pairwise(points)
GetVerticesForSegment(cfg, points, global_origin, min_elevation) ==
    Flatten([i \in 1..(Len(points) - 1) |->
                VerticesForPair(cfg, points[i], points[i + 1],
                                global_origin, min_elevation)])

\* len(range(0, stop, 4))
RangeLen4(stop) == IF stop <= 0 THEN 0 ELSE (stop + 3) \div 4

\* the side face for cross-section base i and rotation j
WallFace(i, j) ==
    <<i + ((j + 1) % 4), i + j, i + 4 + j, i + 4 + ((j + 1) % 4)>>

\* for i in range(0, vertex_count - 8, 4) for j in range(1, 5)
WallFaces(vertex_count) ==
    [m \in 1..(4 * RangeLen4(vertex_count - 8)) |->
        WallFace(4 * ((m - 1) \div 4), ((m - 1) % 4) + 1)]

AddOffset(faces, segment_offset) ==
    [k \in 1..Len(faces) |-> [m \in 1..4 |-> faces[k][m] + segment_offset]]

\* variant of _get_polygons_for_vertices without the closing cap
GetPolygonsForVerticesNoLastCap(vertex_count, segment_offset) ==
    AddOffset(<< <<1, 2, 3, 4>> >> \o WallFaces(vertex_count), segment_offset)

\* _get_polygons_for_vertices
GetPolygonsForVertices(vertex_count, segment_offset) ==
    AddOffset(<< <<1, 2, 3, 4>> >>
              \o WallFaces(vertex_count)
              \o << <<vertex_count - 3, vertex_count - 2,
                      vertex_count - 1, vertex_count>> >>,
              segment_offset)

\* ---- inputs ---------------------------------------------------------------
Longitudes == {0, 1}

Elevations == {0, 1}

Points == {GPSPoint(lon, elev) : lon \in Longitudes, elev \in Elevations}

SeqsUpTo(S, n) == UNION {[1..k -> S] : k \in 0..n}

\* tracks of exactly k segments holding at most n points in total
RECURSIVE TracksOf(_, _)
TracksOf(k, n) ==
    IF k = 0 THEN {<<>>}
    ELSE UNION {{<<s>> \o t : t \in TracksOf(k - 1, n - Len(s))} :
                s \in SeqsUpTo(Points, n)}

Tracks == UNION {TracksOf(k, MaxTrackPts) : k \in 0..MaxSegs}

Configs == [elevation_multiplier : {-1, 0, 2},
            smoothing_interval : {-1, 0},
            base_height : {1},
            path_width : {2}]

NullPoint == GPSPoint(0, 0)

EmptyObjFile == [vertices |-> <<>>, polygons |-> <<>>]

\* ---- state ----------------------------------------------------------------
VARIABLES
    config,          \* converter.config, fixed for the batch
    pc,              \* where main / run stands
    file_index,      \* position in the glob result, 1-based
    gps_track,       \* segments of the track read from the current file
    global_origin,   \* run: gps_track.segments[0].points[0]
    min_elevation,   \* run: gps_track.min_elevation()
    seg_index,       \* run: the segment the for loop takes next
    segment_offset,  \* run: vertices emitted by earlier segments
    obj_file,        \* run: ObjFile buffer
    emitted,         \* history: per processed segment, what run computed
    writes,          \* how often the current file's output was written
    arg_vertex_count, arg_segment_offset, ret_polygons, poly_pc,
    arg_points, arg_interval, ret_points, filter_pc

mainVars == <<config, pc, file_index, gps_track, global_origin, min_elevation,
              seg_index, segment_offset, obj_file, emitted, writes>>

polyVars == <<arg_vertex_count, arg_segment_offset, ret_polygons, poly_pc>>

filterVars == <<arg_points, arg_interval, ret_points, filter_pc>>

vars == <<mainVars, polyVars, filterVars>>

RunLocalsCleared ==
    /\ gps_track' = <<>>
    /\ global_origin' = NullPoint
    /\ min_elevation' = 0
    /\ seg_index' = 0
    /\ segment_offset' = 0
    /\ obj_file' = EmptyObjFile
    /\ emitted' = <<>>

PolyIdle ==
    /\ arg_vertex_count = 0
    /\ arg_segment_offset = 0
    /\ ret_polygons = <<>>
    /\ poly_pc = "idle"

FilterIdle ==
    /\ arg_points = <<>>
    /\ arg_interval = 0
    /\ ret_points = <<>>
    /\ filter_pc = "idle"

MainIdle ==
    /\ config = CHOOSE c \in Configs : TRUE
    /\ pc = "idle"
    /\ file_index = 0
    /\ gps_track = <<>>
    /\ global_origin = NullPoint
    /\ min_elevation = 0
    /\ seg_index = 0
    /\ segment_offset = 0
    /\ obj_file = EmptyObjFile
    /\ emitted = <<>>
    /\ writes = 0

\* ---- main.py / GPSTrackToOBJ.run ------------------------------------------
Init ==
    /\ config \in Configs
    /\ pc = "main"
    /\ file_index = 1
    /\ gps_track = <<>>
    /\ global_origin = NullPoint
    /\ min_elevation = 0
    /\ seg_index = 0
    /\ segment_offset = 0
    /\ obj_file = EmptyObjFile
    /\ emitted = <<>>
    /\ writes = 0
    /\ PolyIdle
    /\ FilterIdle

\* GPSTrack.from_file returns a track with at least one point
FromFile ==
    /\ pc = "main"
    /\ file_index <= MaxFiles
    /\ \E track \in Tracks :
          /\ TrackLen(track) # 0
          /\ gps_track' = track
    /\ pc' = "run"
    /\ UNCHANGED <<config, file_index, global_origin, min_elevation, seg_index,
                   segment_offset, obj_file, emitted, writes>>
    /\ UNCHANGED <<polyVars, filterVars>>

\* len(gps_track) == 0: print "Skipping ..." and continue
SkipFile ==
    /\ pc = "main"
    /\ file_index <= MaxFiles
    /\ \E track \in Tracks : TrackLen(track) = 0
    /\ file_index' = file_index + 1
    /\ UNCHANGED <<config, pc, gps_track, global_origin, min_elevation,
                   seg_index, segment_offset, obj_file, emitted, writes>>
    /\ UNCHANGED <<polyVars, filterVars>>

\* GPSTrack.from_file raises (unsupported extension, parse error); main has
\* no handler, so the exception ends the batch
FromFileRaises ==
    /\ pc = "main"
    /\ file_index <= MaxFiles
    /\ pc' = "crashed"
    /\ UNCHANGED <<config, file_index, gps_track, global_origin, min_elevation,
                   seg_index, segment_offset, obj_file, emitted, writes>>
    /\ UNCHANGED <<polyVars, filterVars>>

HasEmptySegment(segments) == \E k \in 1..Len(segments) : Len(segments[k]) = 0

\* run, lines 57-60: origin, offset, track minimum, empty buffer
RunBegin ==
    /\ pc = "run"
    /\ ~HasEmptySegment(gps_track)
    /\ global_origin' = gps_track[1][1]
    /\ segment_offset' = 0
    /\ min_elevation' = TrackMinElevation(gps_track)
    /\ obj_file' = EmptyObjFile
    /\ seg_index' = 1
    /\ emitted' = <<>>
    /\ pc' = "loop"
    /\ UNCHANGED <<config, file_index, gps_track, writes>>
    /\ UNCHANGED <<polyVars, filterVars>>

\* run, lines 57-59 raise on an empty segment (IndexError on points[0] of
\* the first segment, ValueError from min() otherwise); main has no handler
RunRaises ==
    /\ pc = "run"
    /\ HasEmptySegment(gps_track)
    /\ pc' = "crashed"
    /\ UNCHANGED <<config, file_index, gps_track, global_origin, min_elevation,
                   seg_index, segment_offset, obj_file, emitted, writes>>
    /\ UNCHANGED <<polyVars, filterVars>>

\* run, lines 61-73: one iteration of the loop over the segments
ProcessSegment ==
    /\ pc = "loop"
    /\ seg_index <= Len(gps_track)
    /\ LET filtered_segment ==
               FilterBySmoothingInterval(gps_track[seg_index],
                                         config.smoothing_interval)
           vertices_for_segment ==
               GetVerticesForSegment(config, filtered_segment,
                                     global_origin, min_elevation)
           polygons_for_segment ==
               GetPolygonsForVertices(Len(vertices_for_segment), segment_offset)
       IN  /\ obj_file' = [vertices |-> obj_file.vertices \o vertices_for_segment,
                           polygons |-> obj_file.polygons \o polygons_for_segment]
           /\ segment_offset' = segment_offset + Len(vertices_for_segment)
           /\ emitted' = Append(emitted, [points |-> filtered_segment,
                                          vertices |-> vertices_for_segment,
                                          polygons |-> polygons_for_segment])
    /\ seg_index' = seg_index + 1
    /\ UNCHANGED <<config, pc, file_index, gps_track, global_origin,
                   min_elevation, writes>>
    /\ UNCHANGED <<polyVars, filterVars>>

\* variant of run with write_to_file inside the loop: the buffer is written
\* as soon as one segment has been processed
WriteToFileInLoop ==
    /\ pc = "loop"
    /\ seg_index > 1
    /\ writes' = writes + 1
    /\ pc' = "written"
    /\ UNCHANGED <<config, file_index, gps_track, global_origin, min_elevation,
                   seg_index, segment_offset, obj_file, emitted>>
    /\ UNCHANGED <<polyVars, filterVars>>

\* run, line 75: obj_file.write_to_file(obj_file_path)
WriteToFile ==
    /\ pc = "loop"
    /\ seg_index > Len(gps_track)
    /\ writes' = writes + 1
    /\ pc' = "written"
    /\ UNCHANGED <<config, file_index, gps_track, global_origin, min_elevation,
                   seg_index, segment_offset, obj_file, emitted>>
    /\ UNCHANGED <<polyVars, filterVars>>

\* run returns to main's loop; its locals are gone
RunReturn ==
    /\ pc = "written"
    /\ writes' = 0
    /\ file_index' = file_index + 1
    /\ pc' = "main"
    /\ RunLocalsCleared
    /\ UNCHANGED config
    /\ UNCHANGED <<polyVars, filterVars>>

\* the glob result is exhausted
MainReturn ==
    /\ pc = "main"
    /\ file_index > MaxFiles
    /\ pc' = "done"
    /\ UNCHANGED <<config, file_index, gps_track, global_origin, min_elevation,
                   seg_index, segment_offset, obj_file, emitted, writes>>
    /\ UNCHANGED <<polyVars, filterVars>>

Next ==
    \/ FromFile
    \/ SkipFile
    \/ FromFileRaises
    \/ RunBegin
    \/ RunRaises
    \/ ProcessSegment
    \/ WriteToFile
    \/ RunReturn
    \/ MainReturn

Spec == Init /\ [][Next]_vars

\* ---- _get_polygons_for_vertices on its own ----------------------------------
InitPolygons ==
    /\ arg_vertex_count \in {4 * k : k \in 0..MaxSections}
    /\ arg_segment_offset \in {4 * k : k \in 0..MaxPriorSections}
    /\ ret_polygons = <<>>
    /\ poly_pc = "call"
    /\ MainIdle
    /\ FilterIdle

CallGetPolygons ==
    /\ poly_pc = "call"
    /\ ret_polygons' = GetPolygonsForVertices(arg_vertex_count, arg_segment_offset)
    /\ poly_pc' = "returned"
    /\ UNCHANGED <<arg_vertex_count, arg_segment_offset>>
    /\ UNCHANGED <<mainVars, filterVars>>

NextPolygons == CallGetPolygons

SpecPolygons == InitPolygons /\ [][NextPolygons]_vars

\* ---- filter_by_smoothing_interval on its own --------------------------------
FilterPoints == {GPSPoint(lon, 0) : lon \in 0..MaxFilterLon}

InitFilter ==
    /\ arg_points \in UNION {[1..n -> FilterPoints] : n \in 1..MaxFilterLen}
    /\ arg_interval \in (-1)..MaxInterval
    /\ ret_points = <<>>
    /\ filter_pc = "call"
    /\ MainIdle
    /\ PolyIdle

CallFilter ==
    /\ filter_pc = "call"
    /\ ret_points' = FilterBySmoothingInterval(arg_points, arg_interval)
    /\ filter_pc' = "returned"
    /\ UNCHANGED <<arg_points, arg_interval>>
    /\ UNCHANGED <<mainVars, polyVars>>

NextFilter == CallFilter

SpecFilter == InitFilter /\ [][NextFilter]_vars

\* ---- properties ------------------------------------------------------------
PolygonsReturned == poly_pc = "returned"

FilterReturned == filter_pc = "returned"

\* the four edges of a quadrilateral face, as unordered vertex pairs
EdgesOf(face) == {{face[m], face[(m % 4) + 1]} : m \in 1..4}

\* number of faces of a face list that have the edge
FacesWithEdge(faces, edge) ==
    Cardinality({k \in 1..Len(faces) : edge \in EdgesOf(faces[k])})

\* C1: for vertex_count = 4*(N-1) with N >= 2, _get_polygons_for_vertices
\* returns exactly 2 + 4*(N-2) faces (6 faces for 8 vertices).
C1_FaceCountLaw ==
    (PolygonsReturned /\ arg_vertex_count >= 4) =>
        LET N == (arg_vertex_count \div 4) + 1
        IN  Len(ret_polygons) = 2 + 4 * (N - 2)

\* C2: for vertex_count >= 8, every edge between cyclically adjacent vertices
\* of every cross-section is an edge of exactly two returned faces.
C2_ClosedTube ==
    (PolygonsReturned /\ arg_vertex_count >= 8) =>
        \A c \in 0..((arg_vertex_count \div 4) - 1) : \A e \in 1..4 :
            LET base == arg_segment_offset + 4 * c
            IN  FacesWithEdge(ret_polygons, {base + e, base + (e % 4) + 1}) = 2

\* vertices produced by the segments processed before segment k
OffsetOf(k) == SumSeq([j \in 1..(k - 1) |-> Len(emitted[j].vertices)])

AllKeepTwoPoints == \A k \in 1..Len(emitted) : Len(emitted[k].points) >= 2

\* C3: when every processed segment keeps at least 2 points, each face index
\* of segment k lies in offset_k+1 .. offset_k+count_k, and each face index of
\* the buffer lies in 1 .. number of vertices of the buffer.
C3_NoIndexCollisions ==
    AllKeepTwoPoints =>
        /\ \A k \in 1..Len(emitted) :
              \A f \in 1..Len(emitted[k].polygons) : \A m \in 1..4 :
                  emitted[k].polygons[f][m] \in
                      (OffsetOf(k) + 1)..(OffsetOf(k) + Len(emitted[k].vertices))
        /\ \A f \in 1..Len(obj_file.polygons) : \A m \in 1..4 :
              obj_file.polygons[f][m] \in 1..Len(obj_file.vertices)

SomeSegmentKeepsOnePoint ==
    \E k \in 1..Len(emitted) : Len(emitted[k].points) = 1

\* C4: a run in which a segment is left with 1 point after smoothing never
\* writes its output file.
C4_OnePointSegmentRejected ==
    SomeSegmentKeepsOnePoint => (pc # "written" /\ writes = 0)

\* t is an order-preserving subsequence of s
IsSubsequence(t, s) ==
    \E f \in [1..Len(t) -> 1..Len(s)] :
        /\ \A i \in 1..(Len(t) - 1) : f[i] < f[i + 1]
        /\ \A i \in 1..Len(t) : t[i] = s[f[i]]

Distance(a, b) == Abs(b.longitude - a.longitude)

\* C5: for d >= 0 the filter returns a subsequence of the segment that starts
\* with its first point and whose adjacent points are more than d apart.
C5_SmoothingMonotonicity ==
    (FilterReturned /\ arg_interval >= 0) =>
        /\ IsSubsequence(ret_points, arg_points)
        /\ ret_points[1] = arg_points[1]
        /\ \A i \in 1..(Len(ret_points) - 1) :
              Distance(ret_points[i], ret_points[i + 1]) > arg_interval

\* a point between two kept points was dropped
C5_Witness ==
    /\ FilterReturned
    /\ arg_interval >= 1
    /\ Len(ret_points) >= 2
    /\ Len(ret_points) < Len(arg_points)
    /\ ret_points[Len(ret_points)] = arg_points[Len(arg_points)]
    /\ ret_points[2] # arg_points[2]

\* C6 (as stated): with smoothing_interval <= 0 the filter keeps every point.
C6_KeepsAllAtNonPositive ==
    (FilterReturned /\ arg_interval <= 0) => ret_points = arg_points

NoZeroStep(points) ==
    \A i \in 1..(Len(points) - 1) : Distance(points[i], points[i + 1]) # 0

\* C6 (amended): with smoothing_interval < 0 the filter keeps every point;
\* with smoothing_interval = 0 it keeps every point exactly when no two
\* consecutive points of the segment are at distance 0.
C6_KeepsAllUnlessZeroStep ==
    FilterReturned =>
        /\ arg_interval < 0 => ret_points = arg_points
        /\ arg_interval = 0 => (ret_points = arg_points <=> NoZeroStep(arg_points))

C6_Witness ==
    /\ FilterReturned
    /\ arg_interval = 0
    /\ ~NoZeroStep(arg_points)
    /\ Len(ret_points) < Len(arg_points)
    /\ Len(ret_points) >= 2

\* C7: a segment with N points after smoothing yields 4*(N-1) vertices, the
\* c-th group of four being a cross-section across the bearing from point c
\* to point c+1.
C7_VertexCountLaw ==
    \A k \in 1..Len(emitted) :
        LET points == emitted[k].points
            vertices == emitted[k].vertices
            half_width == config.path_width \div 2
        IN  /\ Len(vertices) = 4 * (Len(points) - 1)
            /\ \A c \in 1..(Len(points) - 1) :
                  LET angle == AngleAndDistanceTo(points[c], points[c + 1])[1]
                      first == vertices[4 * (c - 1) + 1]
                      last == vertices[4 * c]
                  IN  /\ first[1] - last[1] = 2 * Cos(angle) * half_width
                      /\ first[2] - last[2] = (-2) * Sin(angle) * half_width

\* a segment of three kept points that turns back on itself
C7_Witness ==
    \E k \in 1..Len(emitted) :
        /\ Len(emitted[k].points) = 3
        /\ Len(emitted[k].vertices) = 8
        /\ emitted[k].points[1] = emitted[k].points[3]

AllElevations ==
    {gps_track[s][i].elevation : <<s, i>> \in
        {<<s, i>> \in (1..Len(gps_track)) \X (1..MaxTrackPts + 1) :
            i <= Len(gps_track[s])}}

\* C8: with elevation_multiplier >= 0 the two raised vertices of every
\* cross-section are at base_height + (point elevation - m) * multiplier,
\* m the least elevation of the whole unsmoothed track, hence >= base_height.
C8_ElevationDatum ==
    config.elevation_multiplier >= 0 =>
        \A k \in 1..Len(emitted) :
            \A c \in 1..(Len(emitted[k].points) - 1) :
                LET m == MinOf(AllElevations)
                    expected == config.base_height
                                + (emitted[k].points[c].elevation - m)
                                  * config.elevation_multiplier
                    vertices == emitted[k].vertices
                IN  /\ vertices[4 * (c - 1) + 2][3] = expected
                    /\ vertices[4 * (c - 1) + 3][3] = expected
                    /\ expected >= config.base_height

\* the first segment lies wholly above a later one and has a cross-section
C8_Witness ==
    /\ Len(emitted) = 2
    /\ config.elevation_multiplier > 0
    /\ Len(emitted[1].vertices) >= 4
    /\ SegmentMinElevation(gps_track[1]) > SegmentMinElevation(gps_track[2])
    /\ emitted[1].vertices[2][3] > config.base_height

\* C9: when the batch ends, main has taken up every file of the glob result:
\* a failure of one file does not keep the files after it from being converted.
C9_BatchIsolation ==
    pc \in {"done", "crashed"} => file_index > MaxFiles

\* C10: for vertex_count >= 4 at offset o, every index in o+1 .. o+vertex_count
\* occurs in some returned face.
C10_VertexCoverage ==
    (PolygonsReturned /\ arg_vertex_count >= 4) =>
        \A idx \in (arg_segment_offset + 1)..(arg_segment_offset + arg_vertex_count) :
            \E k \in 1..Len(ret_polygons) : \E m \in 1..4 :
                ret_polygons[k][m] = idx

C10_Witness ==
    /\ PolygonsReturned
    /\ arg_vertex_count >= 12
    /\ arg_segment_offset >= 4
    /\ Len(ret_polygons) > 2

\* C11: the output is written at most once per run, and only when every
\* segment of the track has been smoothed, turned into vertices and indexed in
\* segment order, the buffer holding exactly those results; a run that raised
\* has written nothing.
C11_WriteOrdering ==
    /\ writes <= 1
    /\ pc = "crashed" => writes = 0
    /\ writes >= 1 =>
          /\ pc = "written"
          /\ Len(emitted) = Len(gps_track)
          /\ \A k \in 1..Len(gps_track) :
                emitted[k].points =
                    FilterBySmoothingInterval(gps_track[k], config.smoothing_interval)
          /\ obj_file.vertices =
                Flatten([k \in 1..Len(emitted) |-> emitted[k].vertices])
          /\ obj_file.polygons =
                Flatten([k \in 1..Len(emitted) |-> emitted[k].polygons])

\* a track of two segments has been written
C11_Witness ==
    /\ pc = "written"
    /\ writes = 1
    /\ Len(gps_track) = 2
    /\ Len(emitted) = 2
    /\ Len(obj_file.vertices) >= 8

====
